---- MODULE Spec2Model ----
(***************************************************************************)
(* A model of the phase pipeline of GitHubCopilot-architect: the           *)
(* phase-to-model registry (config/agents.py), the agent factory           *)
(* (core/agents/factory.py), the Azure OpenAI agent                        *)
(* (core/agents/azure_openai.py), the final-analysis test harness          *)
(* (tests/final_analysis_test/test_final_analysis.py) and the phase        *)
(* orchestrator described by the specification.                            *)
(*                                                                         *)
(* Python values are represented as follows: a str is a TLA+ string or,    *)
(* where strings are concatenated, a sequence of tokens; None is the       *)
(* string "None" (NoneConfig for a missing ModelConfig); a dict is a       *)
(* function or a record; an exception is a record with kind "raise".       *)
(***************************************************************************)
EXTENDS Integers, Sequences, FiniteSets, TLC

VARIABLES
    registry,        \* config.agents.MODEL_CONFIG: phase name -> ModelConfig
    resolved,        \* outcome of the last get_architect_for_phase call
    tests,           \* run_all_tests: models_to_test
    testIdx,         \* run_all_tests: position of the loop in models_to_test
    testPc,          \* position inside run_all_tests / test_model_config
    original_config, \* test_model_config: the saved registry.get("final")
    testOutcome,     \* what the last test_model_config returned
    env,             \* os.environ: AZURE_ENDPOINT, AZURE_API_KEY, AZURE_DEPLOYMENT
    architect,       \* the AzureOpenAIArchitect object the caller holds, or NoArchitect
    constructed,     \* outcome of the last AzureOpenAIArchitect(...) call
    requests,        \* the calls of client.chat.completions.create of the last operation
    log,             \* the logging.error records of the last operation
    opResult,        \* the last phase operation of the agent and its outcome
    run,             \* the orchestrator runs
    calling,         \* the run whose task is inside a provider call (0: none)
    root,            \* the parts of the path of the analysed directory
    tree,            \* the files and directories below the analysed directory
    condition,       \* what stat and open do with each file below the analysed directory
    listing,         \* the last call of list_files and what it yielded
    reading,         \* the last call of read_file_with_fallback and what it returned
    contents         \* the last call of get_file_contents and what it returned

factoryVars == <<registry, resolved, tests, testIdx, testPc, original_config, testOutcome>>
agentVars == <<env, architect, constructed, requests, log, opResult>>
runVars == <<run, calling>>
toolVars == <<root, tree, condition, listing, reading, contents>>
vars == <<registry, resolved, tests, testIdx, testPc, original_config, testOutcome,
          env, architect, constructed, requests, log, opResult, run, calling,
          root, tree, condition, listing, reading, contents>>

None == "None"

(***************************************************************************)
(* core/types/models.py: ModelConfig and the predefined configurations     *)
(***************************************************************************)
ModelConfig(provider, model_name, reasoning, temperature) ==
    [provider |-> provider, model_name |-> model_name,
     reasoning |-> reasoning, temperature |-> temperature]

\* The value of MODEL_CONFIG.get(phase) when there is no entry, and of an
\* entry that holds None.
NoneConfig == ModelConfig(None, None, None, None)

CLAUDE_BASIC == ModelConfig("ANTHROPIC", "claude-3-7-sonnet-20250219", "DISABLED", None)
CLAUDE_WITH_REASONING == ModelConfig("ANTHROPIC", "claude-3-7-sonnet-20250219", "ENABLED", None)
O1_HIGH == ModelConfig("OPENAI", "o1", "HIGH", None)
O1_MEDIUM == ModelConfig("OPENAI", "o1", "MEDIUM", None)
O1_LOW == ModelConfig("OPENAI", "o1", "LOW", None)
O3_MINI_HIGH == ModelConfig("OPENAI", "o3-mini", "HIGH", None)
O3_MINI_MEDIUM == ModelConfig("OPENAI", "o3-mini", "MEDIUM", None)
O3_MINI_LOW == ModelConfig("OPENAI", "o3-mini", "LOW", None)
GPT4_1_DEFAULT == ModelConfig("OPENAI", "gpt-4.1", "TEMPERATURE", "0.7")
GPT4_1_CREATIVE == ModelConfig("OPENAI", "gpt-4.1", "TEMPERATURE", "0.9")
GPT4_1_PRECISE_NoTemperature == ModelConfig("OPENAI", "gpt-4.1", "TEMPERATURE", None)
GPT4_1_PRECISE == ModelConfig("OPENAI", "gpt-4.1", "TEMPERATURE", "0.2")
DEEPSEEK_REASONER == ModelConfig("DEEPSEEK", "deepseek-reasoner", "ENABLED", None)
GEMINI_BASIC == ModelConfig("GEMINI", "gemini-2.5-flash-preview-04-17", "DISABLED", None)
GEMINI_WITH_REASONING == ModelConfig("GEMINI", "gemini-2.5-pro-preview-03-25", "ENABLED", None)

PredefinedConfigs ==
    {CLAUDE_BASIC, CLAUDE_WITH_REASONING, O1_HIGH, O1_MEDIUM, O1_LOW,
     O3_MINI_HIGH, O3_MINI_MEDIUM, O3_MINI_LOW, GPT4_1_DEFAULT, GPT4_1_CREATIVE,
     GPT4_1_PRECISE, DEEPSEEK_REASONER, GEMINI_BASIC, GEMINI_WITH_REASONING}

\* A configuration a user writes for the Azure OpenAI agent: the provider
\* AzureOpenAIArchitect reports for itself, with the agent's default model.
AZURE_GPT4O == ModelConfig("AZURE_OPENAI", "gpt-4o", "MEDIUM", None)

\* The providers for which the code base holds an agent class.
ProvidersWithAgent == {"ANTHROPIC", "OPENAI", "DEEPSEEK", "GEMINI", "AZURE_OPENAI"}

\* The agent class of each provider.
ArchitectOf(provider) ==
    CASE provider = "ANTHROPIC" -> "AnthropicArchitect"
      [] provider = "OPENAI" -> "OpenAIArchitect"
      [] provider = "DEEPSEEK" -> "DeepSeekArchitect"
      [] provider = "GEMINI" -> "GeminiArchitect"
      [] provider = "AZURE_OPENAI" -> "AzureOpenAIArchitect"
      [] OTHER -> None

(***************************************************************************)
(* config/agents.py: the registry                                          *)
(***************************************************************************)
PhaseIds == {"phase1", "phase2", "phase3", "phase4", "phase5", "final"}

MODEL_CONFIG_FinalOnAzure ==
    [p \in PhaseIds |->
        CASE p = "phase1" -> GPT4_1_PRECISE
          [] p = "final" -> AZURE_GPT4O
          [] OTHER -> GEMINI_BASIC]

MODEL_CONFIG ==
    [p \in PhaseIds |->
        CASE p = "phase1" -> GPT4_1_PRECISE
          [] p = "phase2" -> GEMINI_BASIC
          [] p = "phase3" -> GEMINI_BASIC
          [] p = "phase4" -> GEMINI_BASIC
          [] p = "phase5" -> GEMINI_BASIC
          [] p = "final" -> GEMINI_BASIC]

\* dict.get(key): the entry, or None
DictGet(d, key) == IF key \in DOMAIN d THEN d[key] ELSE NoneConfig

\* d[key] = value: rebinds the key or adds it
DictSet(d, key, value) ==
    [k \in DOMAIN d \cup {key} |-> IF k = key THEN value ELSE d[k]]

\* The registry with one key removed
DictDel(d, key) == [k \in DOMAIN d \ {key} |-> d[k]]

(***************************************************************************)
(* core/agents/factory.py: get_architect_for_phase                         *)
(***************************************************************************)
Raise(error, message) ==
    [kind |-> "raise", error |-> error, message |-> message,
     variant |-> None, params |-> <<>>]

\* An agent constructor was invoked with these keyword arguments
Agent(variant, params) ==
    [kind |-> "agent", error |-> None, message |-> None,
     variant |-> variant, params |-> params]

NoCall == [kind |-> "none", error |-> None, message |-> None,
           variant |-> None, params |-> <<>>]

\* f(name=value, ..., **kwargs): Python raises TypeError before the body of
\* f runs when kwargs repeats a keyword that is given explicitly; otherwise
\* the callee receives the explicit keywords and those of kwargs.
CallWithKwargs(variant, explicit, kwargs) ==
    IF DOMAIN explicit \cap DOMAIN kwargs # {}
    THEN Raise("TypeError", "got multiple values for keyword argument")
    ELSE Agent(variant,
               [n \in DOMAIN explicit \cup DOMAIN kwargs |->
                   IF n \in DOMAIN kwargs THEN kwargs[n] ELSE explicit[n]])

get_architect_for_phase_DefaultConfig(reg, phase, kwargs) ==
    LET found == DictGet(reg, phase)
        config == IF found = NoneConfig THEN GEMINI_BASIC ELSE found IN
    IF config.provider = "ANTHROPIC"
    THEN CallWithKwargs("AnthropicArchitect",
            [model_name |-> config.model_name, reasoning |-> config.reasoning],
            kwargs)
    ELSE IF config.provider = "OPENAI"
    THEN CallWithKwargs("OpenAIArchitect",
            [model_name |-> config.model_name, reasoning |-> config.reasoning,
             temperature |-> config.temperature], kwargs)
    ELSE IF config.provider = "DEEPSEEK"
    THEN CallWithKwargs("DeepSeekArchitect", <<>>, kwargs)
    ELSE IF config.provider = "GEMINI"
    THEN CallWithKwargs("GeminiArchitect",
            [model_name |-> config.model_name, reasoning |-> config.reasoning],
            kwargs)
    ELSE Raise("ValueError", "Unknown model provider")

get_architect_for_phase_FallbackAgent(reg, phase, kwargs) ==
    LET config == DictGet(reg, phase) IN
    IF config = NoneConfig
    THEN Raise("ValueError", "No model configuration found for phase")
    ELSE IF config.provider = "ANTHROPIC"
    THEN CallWithKwargs("AnthropicArchitect",
            [model_name |-> config.model_name, reasoning |-> config.reasoning],
            kwargs)
    ELSE IF config.provider = "OPENAI"
    THEN CallWithKwargs("OpenAIArchitect",
            [model_name |-> config.model_name, reasoning |-> config.reasoning,
             temperature |-> config.temperature], kwargs)
    ELSE IF config.provider = "DEEPSEEK"
    THEN CallWithKwargs("DeepSeekArchitect", <<>>, kwargs)
    ELSE CallWithKwargs("GeminiArchitect",
            [model_name |-> config.model_name, reasoning |-> config.reasoning],
            kwargs)

get_architect_for_phase(reg, phase, kwargs) ==
    LET config == DictGet(reg, phase) IN
    IF config = NoneConfig
    THEN Raise("ValueError", "No model configuration found for phase")
    ELSE IF config.provider = "ANTHROPIC"
    THEN CallWithKwargs("AnthropicArchitect",
            [model_name |-> config.model_name, reasoning |-> config.reasoning],
            kwargs)
    ELSE IF config.provider = "OPENAI"
    THEN CallWithKwargs("OpenAIArchitect",
            [model_name |-> config.model_name, reasoning |-> config.reasoning,
             temperature |-> config.temperature], kwargs)
    ELSE IF config.provider = "DEEPSEEK"
    THEN CallWithKwargs("DeepSeekArchitect", <<>>, kwargs)
    ELSE IF config.provider = "GEMINI"
    THEN CallWithKwargs("GeminiArchitect",
            [model_name |-> config.model_name, reasoning |-> config.reasoning],
            kwargs)
    ELSE Raise("ValueError", "Unknown model provider")

\* The phase arguments of the calls: the six phases and one unknown name
PhaseArgs == PhaseIds \cup {"phase6"}

\* The keyword overrides a caller passes, each with the caller's value
OverrideNames == {"model_name", "temperature", "system_prompt"}

KwargsSet == UNION {[S -> {"caller"}] : S \in SUBSET OverrideNames}

\* A call of get_architect_for_phase by any caller
Resolve(phase, kwargs) ==
    /\ resolved' = [phase |-> phase, kwargs |-> kwargs, config |-> DictGet(registry, phase),
                    result |-> get_architect_for_phase(registry, phase, kwargs)]
    /\ UNCHANGED <<registry, tests, testIdx, testPc, original_config, testOutcome>>
    /\ UNCHANGED agentVars
    /\ UNCHANGED runVars
    /\ UNCHANGED toolVars

(***************************************************************************)
(* tests/final_analysis_test/test_final_analysis.py                        *)
(***************************************************************************)
\* run_all_tests, up to the loop: the four fixed configurations, and the
\* one bound to "final" when that is truthy.
ModelsToTest(reg) ==
    <<CLAUDE_WITH_REASONING, O1_HIGH, GPT4_1_DEFAULT, O3_MINI_HIGH>>
        \o (IF DictGet(reg, "final") # NoneConfig THEN <<DictGet(reg, "final")>> ELSE <<>>)

RunAllTests ==
    /\ testPc = "idle"
    /\ tests' = ModelsToTest(registry)
    /\ testIdx' = 1
    /\ testPc' = "loop"
    /\ UNCHANGED <<registry, resolved, original_config, testOutcome>>
    /\ UNCHANGED agentVars
    /\ UNCHANGED runVars
    /\ UNCHANGED toolVars

\* test_model_config, lines 76-79: save the entry of "final" and override it
TestModelConfigEnter ==
    /\ testPc = "loop"
    /\ testIdx <= Len(tests)
    /\ original_config' = DictGet(registry, "final")
    /\ registry' = DictSet(registry, "final", tests[testIdx])
    /\ testPc' = "try"
    /\ UNCHANGED <<resolved, tests, testIdx, testOutcome>>
    /\ UNCHANGED agentVars
    /\ UNCHANGED runVars
    /\ UNCHANGED toolVars

\* What the try block of test_model_config ends with
TestOutcomes == {"passed", "error_status", "missing_keys", "exception"}

\* test_model_config, lines 81-114: the awaited final-analysis run; the
\* value returned is True only when the run passed.
TestModelConfigTry(outcome) ==
    /\ testPc = "try"
    /\ testOutcome' = outcome
    /\ testPc' = "finally"
    /\ UNCHANGED <<registry, resolved, tests, testIdx, original_config>>
    /\ UNCHANGED agentVars
    /\ UNCHANGED runVars
    /\ UNCHANGED toolVars

\* test_model_config, lines 115-117: the finally block, and the next
\* iteration of the loop of run_all_tests
TestModelConfigFinally ==
    /\ testPc = "finally"
    /\ registry' = DictSet(registry, "final", original_config)
    /\ testIdx' = testIdx + 1
    /\ testPc' = IF testIdx + 1 <= Len(tests) THEN "loop" ELSE "done"
    /\ UNCHANGED <<resolved, tests, original_config, testOutcome>>
    /\ UNCHANGED agentVars
    /\ UNCHANGED runVars
    /\ UNCHANGED toolVars

(***************************************************************************)
(* core/agents/azure_openai.py: AzureOpenAIArchitect                       *)
(***************************************************************************)
\* A str that the code concatenates is a sequence of tokens
EmptyStr == <<>>

\* dict.get(key, default) on a dict of settings
GetOr(d, key, default) == IF key \in DOMAIN d THEN d[key] ELSE default

\* No AzureOpenAIArchitect object exists
NoArchitect == [client |-> FALSE]

AzureOpenAIArchitect_NoCredentialCheck(environ, model_config, system_prompt) ==
    [kind |-> "object", error |-> None, clients |-> 1,
     self |-> [endpoint |-> environ.AZURE_ENDPOINT,
               api_key |-> environ.AZURE_API_KEY,
               api_version |-> "2024-12-01-preview",
               env_deployment |-> environ.AZURE_DEPLOYMENT,
               client |-> TRUE,
               deployment |-> IF environ.AZURE_DEPLOYMENT \notin {None, ""}
                              THEN environ.AZURE_DEPLOYMENT
                              ELSE GetOr(model_config, "deployment", "gpt-4o"),
               model |-> GetOr(model_config, "model", "gpt-4o"),
               max_tokens |-> GetOr(model_config, "max_tokens", "4096"),
               temperature |-> GetOr(model_config, "temperature", "0.7"),
               top_p |-> GetOr(model_config, "top_p", "0.95"),
               provider |-> "AZURE_OPENAI",
               reasoning_mode |-> GetOr(model_config, "reasoning_mode", "MEDIUM"),
               system_message |-> system_prompt]]

\* AzureOpenAIArchitect.__init__: the object, or the exception it raises.
\* "clients" counts the AzureOpenAI clients the call created.
AzureOpenAIArchitect(environ, model_config, system_prompt) ==
    IF environ.AZURE_ENDPOINT \in {None, ""} \/ environ.AZURE_API_KEY \in {None, ""}
    THEN [kind |-> "raise", error |-> "ValueError", clients |-> 0, self |-> NoArchitect]
    ELSE [kind |-> "object", error |-> None, clients |-> 1,
          self |-> [endpoint |-> environ.AZURE_ENDPOINT,
                    api_key |-> environ.AZURE_API_KEY,
                    api_version |-> "2024-12-01-preview",
                    env_deployment |-> environ.AZURE_DEPLOYMENT,
                    client |-> TRUE,
                    deployment |-> IF environ.AZURE_DEPLOYMENT \notin {None, ""}
                                   THEN environ.AZURE_DEPLOYMENT
                                   ELSE GetOr(model_config, "deployment", "gpt-4o"),
                    model |-> GetOr(model_config, "model", "gpt-4o"),
                    max_tokens |-> GetOr(model_config, "max_tokens", "4096"),
                    temperature |-> GetOr(model_config, "temperature", "0.7"),
                    top_p |-> GetOr(model_config, "top_p", "0.95"),
                    provider |-> "AZURE_OPENAI",
                    reasoning_mode |-> GetOr(model_config, "reasoning_mode", "MEDIUM"),
                    system_message |-> system_prompt]]

\* The provider's side of client.chat.completions.create: it raises, or it
\* returns an iterable of chunks.
ProviderRaises(error) == [raises |-> error, chunks |-> <<>>]

ProviderReturns(chunks) == [raises |-> None, chunks |-> chunks]

\* The items the iteration over a response yields: a tuple whose second
\* element is a dict with a content, a tuple whose second element is a dict
\* without one, a tuple whose second element is no dict (it has no get), and
\* an item that is no tuple of two or more elements.
Delta(content) == [tuple |-> TRUE, second |-> "dict", has_content |-> TRUE, content |-> content]

NoContent == [tuple |-> TRUE, second |-> "dict", has_content |-> FALSE, content |-> <<>>]

FieldPair == [tuple |-> TRUE, second |-> "str", has_content |-> FALSE, content |-> <<>>]

PlainChunk == [tuple |-> FALSE, second |-> None, has_content |-> FALSE, content |-> <<>>]

\* The loop of lines 355-360 over the chunks that remain: the contents
\* collected, or the exception chunk[1].get raises.
RECURSIVE Collect(_, _)
Collect(chunks, collected_content) ==
    IF chunks = <<>>
    THEN [error |-> None, collected_content |-> collected_content]
    ELSE LET chunk == Head(chunks) IN
         IF chunk.tuple
         THEN IF chunk.second # "dict"
              THEN [error |-> "AttributeError", collected_content |-> collected_content]
              ELSE Collect(Tail(chunks),
                           Append(collected_content,
                                  IF chunk.has_content THEN chunk.content
                                  ELSE EmptyStr))
         ELSE Collect(Tail(chunks), collected_content)

\* "".join(parts)
RECURSIVE Join(_)
Join(parts) == IF parts = <<>> THEN EmptyStr ELSE Head(parts) \o Join(Tail(parts))

\* The request a call of client.chat.completions.create carries
Request(self, messages) ==
    [endpoint |-> self.endpoint, api_key |-> self.api_key,
     messages |-> [i \in DOMAIN messages |-> [role |-> "user", content |-> messages[i].content]],
     max_tokens |-> self.max_tokens, temperature |-> self.temperature,
     top_p |-> self.top_p, model |-> self.deployment]

\* Outcomes of a call or of an operation: a value returned or an exception
\* raised, with the requests sent and the records logged on the way.
Returned(value, sent, logged) ==
    [kind |-> "return", value |-> value, error |-> None, requests |-> sent, log |-> logged]

Raised(error, sent, logged) ==
    [kind |-> "raise", value |-> None, error |-> error, requests |-> sent, log |-> logged]

call_azure_openai_Swallow(self, messages, provider) ==
    LET sent == <<Request(self, messages)>>
        streamed == Collect(provider.chunks, <<>>) IN
    IF provider.raises # None
    THEN Returned([streamed_content |-> EmptyStr], sent, <<provider.raises>>)
    ELSE IF streamed.error # None
    THEN Returned([streamed_content |-> Join(streamed.collected_content)], sent,
                  <<streamed.error>>)
    ELSE Returned([streamed_content |-> Join(streamed.collected_content)], sent, <<>>)

call_azure_openai_Retry(self, messages, provider) ==
    LET sent == <<Request(self, messages)>>
        streamed == Collect(provider.chunks, <<>>) IN
    IF provider.raises # None
    THEN Raised(provider.raises, sent \o sent, <<provider.raises>>)
    ELSE IF streamed.error # None
    THEN Raised(streamed.error, sent, <<streamed.error>>)
    ELSE Returned([streamed_content |-> Join(streamed.collected_content)], sent, <<>>)

\* AzureOpenAIArchitect._call_azure_openai
call_azure_openai(self, messages, provider) ==
    LET sent == <<Request(self, messages)>>
        streamed == Collect(provider.chunks, <<>>) IN
    IF provider.raises # None
    THEN Raised(provider.raises, sent, <<provider.raises>>)
    ELSE IF streamed.error # None
    THEN Raised(streamed.error, sent, <<streamed.error>>)
    ELSE Returned([streamed_content |-> Join(streamed.collected_content)], sent, <<>>)

\* The prompt formatters of config/prompts and the f-strings of the agent:
\* the text is a function of the template and of the values formatted into it.
Prompt(template, data, structure) ==
    [template |-> template, data |-> data, structure |-> structure]

\* A project structure: None, a list of path strings or a dict
NoneStructure == [kind |-> None, items |-> <<>>]

ListStructure(items) == [kind |-> "list", items |-> items]

DictStructure(items) == [kind |-> "dict", items |-> items]

\* No project structure is part of the prompt
NoStructure == [kind |-> "absent", items |-> <<>>]

SENTINEL_STRUCTURE == ListStructure(<< <<"No project structure provided">> >>)

Messages(self, content) ==
    <<[role |-> "system", content |-> self.system_message],
      [role |-> "user", content |-> content]>>

\* The mapping an operation returns: {key: value}
Wrap(key, called) ==
    IF called.kind = "raise" THEN called
    ELSE [called EXCEPT !.value = [key |-> key, value |-> called.value]]

analyze(self, context, provider) ==
    Wrap("analysis",
         call_azure_openai(self, Messages(self, Prompt("analyze", context, NoStructure)),
                           provider))

\* lines 137-140: a dict becomes the list of its "key: value" strings
StructureAsList(project_structure) ==
    IF project_structure.kind = "dict"
    THEN ListStructure([i \in DOMAIN project_structure.items |->
                          <<project_structure.items[i][1], ": ",
                            project_structure.items[i][2]>>])
    ELSE project_structure

analyze_project_phase_2(self, phase1_results, project_structure, provider) ==
    Wrap("analysis",
         call_azure_openai(self,
             Messages(self, Prompt("phase2", phase1_results,
                                   StructureAsList(project_structure))),
             provider))

analyze_project_phase_4(self, phase3_results, provider) ==
    Wrap("analysis",
         call_azure_openai(self, Messages(self, Prompt("phase4", phase3_results, NoStructure)),
                           provider))

\* lines 198-199 and 238-239
StructureOrSentinel(project_structure) ==
    IF project_structure.kind = None THEN SENTINEL_STRUCTURE ELSE project_structure

\* line 214: response.get("choices", [{}])[0].get("message", {}).get("content", "")
ChoicesContent(response) ==
    IF "choices" \in DOMAIN response
    THEN response.choices[1].message.content
    ELSE EmptyStr

final_analysis(self, consolidated_report, project_structure, provider) ==
    LET called == call_azure_openai(self,
                      Messages(self, Prompt("final", consolidated_report,
                                            StructureOrSentinel(project_structure))),
                      provider) IN
    IF called.kind = "raise" THEN called
    ELSE [called EXCEPT !.value = [key |-> "final_analysis",
                                   value |-> ChoicesContent(called.value)]]

analyze_final(self, analyzed_files, excluded_files, consolidated_report, project_structure, provider) ==
    Wrap("analysis",
         call_azure_openai(self,
             Messages(self, Prompt("final", consolidated_report,
                                   StructureOrSentinel(project_structure))),
             provider))

\* prompt or f"...{json.dumps(...)}": a prompt that is None or empty is replaced
PromptOr(prompt, template, data) ==
    IF prompt \in {None, ""} THEN Prompt(template, data, NoStructure)
    ELSE Prompt(prompt, None, NoStructure)

create_analysis_plan(self, phase1_results, prompt, provider) ==
    Wrap("analysis",
         call_azure_openai(self, Messages(self, PromptOr(prompt, "plan", phase1_results)),
                           provider))

synthesize_findings(self, analysis_results, provider) ==
    Wrap("synthesis",
         call_azure_openai(self,
             Messages(self, Prompt("synthesize", analysis_results, NoStructure)),
             provider))

consolidate_results(self, all_results, prompt, provider) ==
    Wrap("consolidated_report",
         call_azure_openai(self, Messages(self, PromptOr(prompt, "consolidate", all_results)),
                           provider))

(***************************************************************************)
(* The callers of the agent: construction and the phase operations         *)
(***************************************************************************)
\* What an environment variable holds: nothing (unset), "" or a value
EnvValues == {None, "", "set"}

Environments ==
    [AZURE_ENDPOINT : EnvValues, AZURE_API_KEY : EnvValues,
     AZURE_DEPLOYMENT : {None, "env-deployment"}]

\* The model_config dicts of the callers: the empty dict, and the one of
\* tests/azure_openai_test.py lines 56-62.
EmptyDict == [n \in {} |-> None]

TEST_MODEL_CONFIG ==
    [deployment |-> "gpt-4o", model |-> "gpt-4o", reasoning_mode |-> "MEDIUM",
     temperature |-> "0.7", max_tokens |-> "1000"]

ModelConfigDicts == {EmptyDict, TEST_MODEL_CONFIG}

\* The default, and tests/azure_openai_test.py line 66
SystemPrompts == {None, "You are a code analysis assistant."}

\* architect = AzureOpenAIArchitect(model_config=..., system_prompt=...)
Construct(model_config, system_prompt) ==
    LET made == AzureOpenAIArchitect(env, model_config, system_prompt) IN
    /\ opResult.done
    /\ constructed' = [kind |-> made.kind, error |-> made.error, clients |-> made.clients,
                       environ |-> env]
    /\ architect' = IF made.kind = "object" THEN made.self ELSE architect
    /\ UNCHANGED <<env, requests, log, opResult>>
    /\ UNCHANGED factoryVars
    /\ UNCHANGED runVars
    /\ UNCHANGED toolVars

\* The values the callers pass: phase results, project structures, prompts
PhaseResults == {"results"}

\* Optional[List[str]]: None, the empty list, a list of paths
OptionalStructures ==
    {NoneStructure, ListStructure(<<>>), ListStructure(<< <<"main.py">> >>)}

\* Union[Dict[str, Any], List[str]]: a list of paths, a dict
ProjectStructures ==
    {ListStructure(<< <<"main.py">> >>), DictStructure(<< <<"core", "dir">> >>)}

CustomPrompts == {None, "custom prompt"}

\* What the provider does with one request. MaxChunks bounds the length of
\* a response.
MaxChunks == 2

ProviderErrors == {"APIConnectionError"}

ChunkValues == {Delta(<<"a">>), Delta(<<"b">>), NoContent, FieldPair, PlainChunk}

RECURSIVE ChunkSeqs(_)
ChunkSeqs(n) ==
    IF n = 0 THEN {<<>>}
    ELSE ChunkSeqs(n - 1)
            \cup {Append(cs, c) : cs \in {x \in ChunkSeqs(n - 1) : Len(x) = n - 1},
                                  c \in ChunkValues}

ProviderOutcomes ==
    {ProviderRaises(e) : e \in ProviderErrors}
        \cup {ProviderReturns(cs) : cs \in ChunkSeqs(MaxChunks)}

\* A caller holding the agent chooses the operation to call and its
\* arguments; the operation runs when the provider's behaviour is chosen.
Call(op, data, structure, prompt) ==
    /\ architect.client
    /\ opResult.done
    /\ opResult' = [op |-> op, data |-> data, structure |-> structure, prompt |-> prompt,
                    provider |-> ProviderReturns(<<>>), outcome |-> Returned(None, <<>>, <<>>),
                    done |-> FALSE]
    /\ requests' = <<>>
    /\ log' = <<>>
    /\ UNCHANGED <<env, architect, constructed>>
    /\ UNCHANGED factoryVars
    /\ UNCHANGED runVars
    /\ UNCHANGED toolVars

\* The calls the callers make
Calls ==
    {[op |-> "analyze", data |-> d, structure |-> NoStructure, prompt |-> None] :
        d \in PhaseResults}
    \cup {[op |-> "analyze_project_phase_2", data |-> d, structure |-> ps, prompt |-> None] :
        d \in PhaseResults, ps \in ProjectStructures}
    \cup {[op |-> "analyze_project_phase_4", data |-> d, structure |-> NoStructure,
           prompt |-> None] : d \in PhaseResults}
    \cup {[op |-> o, data |-> d, structure |-> ps, prompt |-> None] :
        o \in {"final_analysis", "analyze_final"}, d \in PhaseResults,
        ps \in OptionalStructures}
    \cup {[op |-> o, data |-> d, structure |-> NoStructure, prompt |-> pr] :
        o \in {"create_analysis_plan", "consolidate_results"}, d \in PhaseResults,
        pr \in CustomPrompts}
    \cup {[op |-> "synthesize_findings", data |-> d, structure |-> NoStructure,
           prompt |-> None] : d \in PhaseResults}

Operated_ConvertsInPlace(op, provider, outcome) ==
    /\ architect.client
    /\ ~opResult.done
    /\ opResult.op = op
    /\ opResult' = [opResult EXCEPT !.provider = provider, !.outcome = outcome,
                                    !.structure = StructureAsList(@), !.done = TRUE]
    /\ requests' = outcome.requests
    /\ log' = outcome.log
    /\ UNCHANGED <<env, architect, constructed>>
    /\ UNCHANGED factoryVars
    /\ UNCHANGED runVars
    /\ UNCHANGED toolVars

\* The bookkeeping of one operation of the agent: what it returned or
\* raised, the requests it sent and the records it logged. The operation
\* assigns to no attribute of self and to no element of its arguments.
Operated(op, provider, outcome) ==
    /\ architect.client
    /\ ~opResult.done
    /\ opResult.op = op
    /\ opResult' = [opResult EXCEPT !.provider = provider, !.outcome = outcome,
                                    !.done = TRUE]
    /\ requests' = outcome.requests
    /\ log' = outcome.log
    /\ UNCHANGED <<env, architect, constructed>>
    /\ UNCHANGED factoryVars
    /\ UNCHANGED runVars
    /\ UNCHANGED toolVars

Analyze(provider) ==
    Operated("analyze", provider, analyze(architect, opResult.data, provider))

AnalyzeProjectPhase2(provider) ==
    Operated("analyze_project_phase_2", provider,
             analyze_project_phase_2(architect, opResult.data, opResult.structure, provider))

AnalyzeProjectPhase4(provider) ==
    Operated("analyze_project_phase_4", provider,
             analyze_project_phase_4(architect, opResult.data, provider))

FinalAnalysis(provider) ==
    Operated("final_analysis", provider,
             final_analysis(architect, opResult.data, opResult.structure, provider))

AnalyzeFinal(provider) ==
    Operated("analyze_final", provider,
             analyze_final(architect, "files", <<>>, opResult.data, opResult.structure,
                           provider))

CreateAnalysisPlan(provider) ==
    Operated("create_analysis_plan", provider,
             create_analysis_plan(architect, opResult.data, opResult.prompt, provider))

SynthesizeFindings(provider) ==
    Operated("synthesize_findings", provider,
             synthesize_findings(architect, opResult.data, provider))

ConsolidateResults(provider) ==
    Operated("consolidate_results", provider,
             consolidate_results(architect, opResult.data, opResult.prompt, provider))

(***************************************************************************)
(* The phase orchestrator (specification sections 4.4, 5 and 7), driving   *)
(* the operations of the agent                                             *)
(***************************************************************************)
\* The fixed total order of the phases
Phases == <<"phase1", "phase2", "phase3", "phase4", "phase5", "final">>

PhaseStates == <<"PHASE1", "PHASE2", "PHASE3", "PHASE4", "PHASE5", "FINAL">>

\* The position of a phase state in the order (0 for START, DONE and ERROR)
PhaseIndex(state) ==
    IF \E k \in DOMAIN PhaseStates : PhaseStates[k] = state
    THEN CHOOSE k \in DOMAIN PhaseStates : PhaseStates[k] = state
    ELSE 0

\* The state that follows phase k on success
Advance_SkipsSynthesis(k) ==
    IF k = 3 THEN PhaseStates[5]
    ELSE IF k < Len(PhaseStates) THEN PhaseStates[k + 1] ELSE "DONE"

Advance(k) == IF k < Len(PhaseStates) THEN PhaseStates[k + 1] ELSE "DONE"

\* An empty or unavailable project structure is replaced by the sentinel
RunStructure(project_structure) ==
    IF project_structure.kind = None \/ project_structure.items = <<>>
    THEN SENTINEL_STRUCTURE
    ELSE project_structure

\* The entries of a report that belong to one phase
ResultsOf(report, phase) == SelectSeq(report, LAMBDA entry : entry.phase = phase)

\* The context payload of the generic operation
Context(structure, report) == [structure |-> structure, results |-> report]

\* The agent of the runs: an AzureOpenAIArchitect built with credentials
RunArchitect ==
    AzureOpenAIArchitect([AZURE_ENDPOINT |-> "set", AZURE_API_KEY |-> "set",
                          AZURE_DEPLOYMENT |-> None], EmptyDict, None).self

\* The operation of phase k, on the project structure and the report merged
\* so far. "rec" is the record of the run.
PhaseCall_ReadsResponseTable(k, rec, provider) ==
    CASE k = 1 -> analyze(RunArchitect, Context(rec.structure, rec.report), provider)
      [] k = 2 -> analyze_project_phase_2(RunArchitect, ResultsOf(rec.report, "phase1"),
                                          rec.structure, provider)
      [] k = 3 -> analyze(RunArchitect, Context(rec.structure, rec.report), provider)
      [] k = 4 -> analyze_project_phase_4(RunArchitect, rec.mock, provider)
      [] k = 5 -> consolidate_results(RunArchitect, rec.report, None, provider)
      [] k = 6 -> final_analysis(RunArchitect, rec.report, rec.structure, provider)

PhaseCall(k, rec, provider) ==
    CASE k = 1 -> analyze(RunArchitect, Context(rec.structure, rec.report), provider)
      [] k = 2 -> analyze_project_phase_2(RunArchitect, ResultsOf(rec.report, "phase1"),
                                          rec.structure, provider)
      [] k = 3 -> analyze(RunArchitect, Context(rec.structure, rec.report), provider)
      [] k = 4 -> analyze_project_phase_4(RunArchitect, ResultsOf(rec.report, "phase3"),
                                          provider)
      [] k = 5 -> consolidate_results(RunArchitect, rec.report, None, provider)
      [] k = 6 -> final_analysis(RunArchitect, rec.report, rec.structure, provider)

\* The merge of a phase result into the consolidated report
Merge(report, phase, result) == Append(report, [phase |-> phase, result |-> result])

NoError == [phase |-> None, error |-> None]

Runs == {1, 2}

\* The phases whose agent the factory cannot build
Unresolved(reg) ==
    {k \in DOMAIN Phases : get_architect_for_phase(reg, Phases[k], <<>>).kind # "agent"}

\* Run construction: the agents of all phases are resolved, and a
\* configuration or provider-resolution error aborts the run.
StartRun(r) ==
    /\ run[r].state = "START"
    /\ run' = [run EXCEPT ![r] =
          IF Unresolved(registry) # {}
          THEN LET k == CHOOSE k \in Unresolved(registry) :
                            \A j \in Unresolved(registry) : k <= j IN
               [@ EXCEPT !.state = "ERROR",
                         !.error = [phase |-> Phases[k],
                                    error |-> get_architect_for_phase(
                                                  registry, Phases[k], <<>>).error]]
          ELSE [@ EXCEPT !.state = PhaseStates[1],
                         !.structure = RunStructure(@)]]
    /\ UNCHANGED calling
    /\ UNCHANGED factoryVars
    /\ UNCHANGED agentVars
    /\ UNCHANGED toolVars

\* The record of a run after the transition of its phase: the input is
\* built from the structure and the report, the operation of the agent is
\* invoked, and its result is merged or the run fails.
AfterPhase(rec, provider) ==
    LET k == PhaseIndex(rec.state)
        called == PhaseCall(k, rec, provider) IN
    [rec EXCEPT !.inputs = Append(@, [phase |-> Phases[k],
                                      merged |-> Len(rec.report),
                                      prompt |-> called.requests[1].messages[2].content]),
                !.responses = Append(@, provider),
                !.report = IF called.kind = "return"
                           THEN Merge(@, Phases[k], called.value) ELSE @,
                !.state = IF called.kind = "return" THEN Advance(k) ELSE "ERROR",
                !.error = IF called.kind = "return" THEN @
                          ELSE [phase |-> Phases[k], error |-> called.error]]

\* The transition of phase k, as the one step it is for every other run:
\* the operation does not yield between its request and its return
\* (azure_openai.py lines 346-362 hold no await).
RunPhase(r, provider) ==
    /\ PhaseIndex(run[r].state) > 0
    /\ run' = [run EXCEPT ![r] = AfterPhase(@, provider)]
    /\ UNCHANGED calling
    /\ UNCHANGED factoryVars
    /\ UNCHANGED agentVars
    /\ UNCHANGED toolVars

\* The tasks of the runs on one event loop. A task that is inside
\* client.chat.completions.create (azure_openai.py line 346, a call of the
\* synchronous client that is not awaited) holds the thread of the loop
\* until the call returns, so no other task takes a step meanwhile.
StartOnLoop(r) ==
    /\ calling = 0
    /\ StartRun(r)

\* The task of run r enters the provider call of its phase
EnterCall(r) ==
    /\ calling = 0
    /\ PhaseIndex(run[r].state) > 0
    /\ calling' = r
    /\ UNCHANGED run
    /\ UNCHANGED factoryVars
    /\ UNCHANGED agentVars
    /\ UNCHANGED toolVars

\* The provider call of run r returns or raises, and the phase ends
ReturnCall(r, provider) ==
    /\ calling = r
    /\ run' = [run EXCEPT ![r] = AfterPhase(@, provider)]
    /\ calling' = 0
    /\ UNCHANGED factoryVars
    /\ UNCHANGED agentVars
    /\ UNCHANGED toolVars

\* The mocked responses of a run: one text per phase
RunTexts == {<<"a">>, <<"b">>}

MockTables == [DOMAIN Phases -> RunTexts]

\* What the mocked provider of a run does in phase k: it answers with the
\* text of the table, or it fails.
MockOutcomes(rec) ==
    LET k == PhaseIndex(rec.state) IN
    IF k = 0 THEN {}
    ELSE {ProviderReturns(<<Delta(rec.mock[k])>>)}
            \cup {ProviderRaises(e) : e \in ProviderErrors}

NewRun(structure, mock) ==
    [state |-> "START", structure |-> structure, mock |-> mock, report |-> <<>>,
     inputs |-> <<>>, responses |-> <<>>, error |-> NoError]

(***************************************************************************)
(* config/exclusions.py and core/utils/tools/file_retriever.py             *)
(***************************************************************************)
\* A file or directory name is a sequence of tokens, split so that an
\* extension the name ends with is its last token: "main.py" is
\* <<"main", ".py">>, "build" is <<"build">>. A path is the sequence of its
\* parts, as Path.parts gives them.
EXCLUDED_DIRS ==
    {<<"node_modules">>, <<".next">>, <<".git">>, <<"venv">>, <<"__pycache__">>,
     <<"_pycache_">>, <<"dist">>, <<"build">>, <<".idea">>, <<"coverage">>,
     <<".pytest_cache">>, <<".mypy_cache">>, <<"env">>, <<".env">>, <<".venv">>,
     <<"site-packages">>, <<".cursor">>}

EXCLUDED_FILES ==
    {<<"package-lock", ".json">>, <<"yarn", ".lock">>, <<"pnpm-lock", ".yaml">>,
     <<".DS_Store">>, <<".env">>, <<".env", ".local">>, <<".gitignore">>,
     <<"README", ".md">>, <<"LICENSE">>, <<".eslintrc">>, <<".prettierrc">>,
     <<"tsconfig", ".json">>, <<"requirements", ".txt">>, <<"poetry", ".lock">>,
     <<"Pipfile", ".lock">>, <<".gitattributes">>, <<".gitconfig">>, <<".gitmodules">>,
     <<".cursorrules">>, <<".cursorignore">>}

EXCLUDED_EXTENSIONS ==
    {".jpg", ".jpeg", ".png", ".gif", ".ico", ".svg", ".mp4", ".mp3", ".pdf", ".zip",
     ".woff", ".woff2", ".ttf", ".eot", ".pyc", ".pyo", ".pyd", ".so", ".pkl",
     ".pickle", ".db", ".sqlite", ".log", ".cache"}

\* fnmatch.fnmatch(name, pattern) for the patterns in use: a name without
\* wildcard matches itself only, and "*" followed by an extension matches
\* every name that ends with the extension.
fnmatch(name, pattern) ==
    IF Head(pattern) = "*"
    THEN Len(pattern) = 2 /\ name[Len(name)] = pattern[2]
    ELSE name = pattern

should_exclude_NameOnly(path, exclude_dirs, exclude_patterns) ==
    IF path[Len(path)] \in exclude_dirs THEN TRUE
    ELSE \E pattern \in exclude_patterns : fnmatch(path[Len(path)], pattern)

should_exclude(path, exclude_dirs, exclude_patterns) ==
    IF \E i \in DOMAIN path : path[i] \in exclude_dirs THEN TRUE
    ELSE \E pattern \in exclude_patterns : fnmatch(path[Len(path)], pattern)

\* An optional argument: left out (None) or given
Omitted == [given |-> FALSE, value |-> {}]

Given(value) == [given |-> TRUE, value |-> value]

\* list_files, lines 196-207: the sets in force
ExcludeDirs(exclude_dirs) ==
    IF exclude_dirs.given THEN exclude_dirs.value ELSE EXCLUDED_DIRS

ExcludePatterns(exclude_patterns) ==
    IF exclude_patterns.given THEN exclude_patterns.value
    ELSE EXCLUDED_FILES \cup {<<"*", ext>> : ext \in EXCLUDED_EXTENSIONS}

\* An entry of the tree: its path below the analysed directory, whether it
\* is a file or a directory, and whether listing it raises PermissionError
File(path) == [path |-> path, kind |-> "file", denied |-> FALSE]

Dir(path) == [path |-> path, kind |-> "dir", denied |-> FALSE]

DeniedDir(path) == [path |-> path, kind |-> "dir", denied |-> TRUE]

\* path.iterdir(): the entries directly inside the directory at "path"
IterDir(entries, path) ==
    {item \in entries : /\ Len(item.path) = Len(path) + 1
                        /\ SubSeq(item.path, 1, Len(path)) = path}

Nothing == [yielded |-> <<>>, warnings |-> <<>>]

Then(first, second) ==
    [yielded |-> first.yielded \o second.yielded,
     warnings |-> first.warnings \o second.warnings]

\* list_files._list_files_recursive: what the generator yields and the
\* warnings it logs. "dir" is the entry of the directory, "items" the
\* entries of its listing that the loop has not visited yet; the order in
\* which iterdir gives them is the file system's.
RECURSIVE list_files_recursive(_, _, _, _, _, _, _)
RECURSIVE ListItems(_, _, _, _, _, _, _)
ListItems(items, base, entries, current_depth, exclude_dirs, exclude_patterns, max_depth) ==
    IF items = {} THEN Nothing
    ELSE LET item == CHOOSE i \in items : TRUE
             here == IF should_exclude(base \o item.path, exclude_dirs, exclude_patterns)
                     THEN Nothing
                     ELSE IF item.kind = "file"
                     THEN [yielded |-> <<base \o item.path>>, warnings |-> <<>>]
                     ELSE list_files_recursive(item, base, entries, current_depth + 1,
                                               exclude_dirs, exclude_patterns, max_depth) IN
         Then(here, ListItems(items \ {item}, base, entries, current_depth,
                              exclude_dirs, exclude_patterns, max_depth))

list_files_recursive_OneDeeper(dir, base, entries, current_depth, exclude_dirs, exclude_patterns, max_depth) ==
    IF current_depth > max_depth + 1 THEN Nothing
    ELSE IF dir.denied THEN [yielded |-> <<>>, warnings |-> <<base \o dir.path>>]
    ELSE ListItems(IterDir(entries, dir.path), base, entries, current_depth,
                   exclude_dirs, exclude_patterns, max_depth)

list_files_recursive(dir, base, entries, current_depth, exclude_dirs, exclude_patterns, max_depth) ==
    IF current_depth > max_depth THEN Nothing
    ELSE IF dir.denied THEN [yielded |-> <<>>, warnings |-> <<base \o dir.path>>]
    ELSE ListItems(IterDir(entries, dir.path), base, entries, current_depth,
                   exclude_dirs, exclude_patterns, max_depth)

list_files(directory, entries, exclude_dirs, exclude_patterns, max_depth) ==
    list_files_recursive(Dir(<<>>), directory, entries, 0, ExcludeDirs(exclude_dirs),
                         ExcludePatterns(exclude_patterns), max_depth)

\* A call of list_files on the analysed directory, consumed to its end
ListFiles(exclude_dirs, exclude_patterns, max_depth) ==
    LET listed == list_files(root, tree, exclude_dirs, exclude_patterns, max_depth) IN
    /\ listing' = [called |-> TRUE, exclude_dirs |-> exclude_dirs,
                   exclude_patterns |-> exclude_patterns, max_depth |-> max_depth,
                   yielded |-> listed.yielded, warnings |-> listed.warnings]
    /\ UNCHANGED <<root, tree, condition, reading, contents>>
    /\ UNCHANGED factoryVars
    /\ UNCHANGED agentVars
    /\ UNCHANGED runVars

\* The encodings to try, in order of preference
ENCODINGS_Latin1First == <<"latin-1", "utf-8", "cp1252", "iso-8859-1">>

ENCODINGS == <<"utf-8", "latin-1", "cp1252", "iso-8859-1">>

\* The content of a file is a sequence of bytes, written in hexadecimal:
\* 61 is the letter a, C3 starts a UTF-8 sequence of two bytes, A9 and 81
\* continue one, FF occurs in no UTF-8 sequence, and cp1252 assigns no
\* character to 81. A decoded text is a sequence of characters, written as
\* the letter or as the code point.
Bytes == {"61", "C3", "A9", "81", "FF"}

ContinuationBytes == {"A9", "81"}

Decoded(text) == [ok |-> TRUE, text |-> text]

UnicodeDecodeError == [ok |-> FALSE, text |-> <<>>]

\* A character in front of the decoding of the bytes that follow
Cons(char, rest) == IF rest.ok THEN Decoded(<<char>> \o rest.text) ELSE rest

\* bytes.decode("utf-8", errors): a byte that is part of no sequence is an
\* error, or becomes U+FFFD when errors = "replace"
RECURSIVE DecodeUtf8(_, _)
DecodeUtf8(data, errors) ==
    IF data = <<>> THEN Decoded(<<>>)
    ELSE IF Head(data) = "61" THEN Cons("a", DecodeUtf8(Tail(data), errors))
    ELSE IF Head(data) = "C3" /\ Len(data) >= 2 /\ data[2] \in ContinuationBytes
    THEN Cons(IF data[2] = "A9" THEN "U+00E9" ELSE "U+00C1",
              DecodeUtf8(Tail(Tail(data)), errors))
    ELSE IF errors = "replace" THEN Cons("U+FFFD", DecodeUtf8(Tail(data), errors))
    ELSE UnicodeDecodeError

\* The character of one byte in latin-1 (iso-8859-1 is the same codec)
Latin1Char(byte) ==
    CASE byte = "61" -> "a"
      [] byte = "C3" -> "U+00C3"
      [] byte = "A9" -> "U+00A9"
      [] byte = "81" -> "U+0081"
      [] byte = "FF" -> "U+00FF"

DecodeLatin1(data) == Decoded([i \in DOMAIN data |-> Latin1Char(data[i])])

\* cp1252 agrees with latin-1 on these bytes but has no character for 81
DecodeCp1252(data) ==
    IF \E i \in DOMAIN data : data[i] = "81" THEN UnicodeDecodeError
    ELSE DecodeLatin1(data)

\* open(file_path, 'r', encoding=encoding).read()
Decode(data, encoding) ==
    CASE encoding = "utf-8" -> DecodeUtf8(data, "strict")
      [] encoding = "latin-1" -> DecodeLatin1(data)
      [] encoding = "cp1252" -> DecodeCp1252(data)
      [] encoding = "iso-8859-1" -> DecodeLatin1(data)

\* read_file_with_fallback: the loop over the encodings that remain, and
\* the binary read after it. open raises FileNotFoundError for a file
\* that does not exist, and the function does not catch it.
RECURSIVE TryEncodings(_, _, _)
TryEncodings(encodings, file, tried) ==
    IF encodings = <<>>
    THEN IF ~file.exists
         THEN [content |-> <<>>, encoding |-> None, tried |-> tried,
               error |-> "FileNotFoundError"]
         ELSE [content |-> DecodeUtf8(file.data, "replace").text,
               encoding |-> "utf-8 (with replacement)", tried |-> tried, error |-> None]
    ELSE LET encoding == Head(encodings) IN
         IF ~file.exists
         THEN [content |-> <<>>, encoding |-> None, tried |-> Append(tried, encoding),
               error |-> "FileNotFoundError"]
         ELSE IF Decode(file.data, encoding).ok
         THEN [content |-> Decode(file.data, encoding).text, encoding |-> encoding,
               tried |-> Append(tried, encoding), error |-> None]
         ELSE TryEncodings(Tail(encodings), file, Append(tried, encoding))

read_file_with_fallback(file) == TryEncodings(ENCODINGS, file, <<>>)

\* A call of read_file_with_fallback by any caller
ReadFile(file) ==
    LET read == read_file_with_fallback(file) IN
    /\ reading' = [called |-> TRUE, exists |-> file.exists, data |-> file.data,
                   content |-> read.content, encoding |-> read.encoding,
                   tried |-> read.tried, error |-> read.error]
    /\ UNCHANGED <<root, tree, condition, listing, contents>>
    /\ UNCHANGED factoryVars
    /\ UNCHANGED agentVars
    /\ UNCHANGED runVars

\* The files read: every content of up to MaxBytes bytes, and a file that
\* does not exist
MaxBytes == 3

RECURSIVE ByteSeqs(_)
ByteSeqs(n) ==
    IF n = 0 THEN {<<>>}
    ELSE ByteSeqs(n - 1)
            \cup {Append(bs, b) : bs \in {x \in ByteSeqs(n - 1) : Len(x) = n - 1},
                                  b \in Bytes}

FilesToRead ==
    {[exists |-> TRUE, data |-> data] : data \in ByteSeqs(MaxBytes)}
        \cup {[exists |-> FALSE, data |-> <<>>]}

\* detect_language: the language of the extension the name ends with
detect_language(name) ==
    CASE name[Len(name)] = ".py" -> "python"
      [] name[Len(name)] = ".js" -> "javascript"
      [] name[Len(name)] = ".json" -> "json"
      [] name[Len(name)] = ".md" -> "markdown"
      [] OTHER -> "text"

\* format_file_content: the path, the language and the content, which the
\* code joins into one string
format_file_content(file_path, content) ==
    [path |-> file_path, language |-> detect_language(file_path[Len(file_path)]),
     content |-> content]

\* The bytes of the files of the analysed directory
FileData == <<"61">>

\* get_file_contents, lines 264-267: the loop has reached max_files
NoMoreFiles(acc, max_files) ==
    [acc EXCEPT !.warnings = Append(@, max_files)]

ProcessFile_CountsSkipped(acc, file_path, directory, stats) ==
    LET relative_path == SubSeq(file_path, Len(directory) + 1, Len(file_path))
        read == read_file_with_fallback([exists |-> TRUE, data |-> FileData])
        after ==
            IF stats[relative_path] = "raises"
            THEN [acc EXCEPT !.errors = Append(@, file_path)]
            ELSE IF stats[relative_path] = "large"
            THEN [acc EXCEPT !.skipped = Append(@, file_path), !.file_count = @ + 1]
            ELSE [acc EXCEPT
                    !.file_contents =
                        [k \in DOMAIN @ \cup {relative_path} |->
                            IF k = relative_path
                            THEN format_file_content(file_path, read.content)
                            ELSE @[k]],
                    !.file_count = @ + 1] IN
    [after EXCEPT !.passes = Append(@, [file_path |-> file_path,
                                       file_count |-> after.file_count,
                                       keys |-> DOMAIN after.file_contents])]

\* get_file_contents, lines 270-288: one file. stats tells what the file
\* system does with the file: stat or open raises, the size exceeds
\* max_size_kb, or neither. Each pass of the loop is recorded with the
\* counter and the keys of the result it ends with.
ProcessFile(acc, file_path, directory, stats) ==
    LET relative_path == SubSeq(file_path, Len(directory) + 1, Len(file_path))
        read == read_file_with_fallback([exists |-> TRUE, data |-> FileData])
        after ==
            IF stats[relative_path] = "raises"
            THEN [acc EXCEPT !.errors = Append(@, file_path)]
            ELSE IF stats[relative_path] = "large"
            THEN [acc EXCEPT !.skipped = Append(@, file_path)]
            ELSE [acc EXCEPT
                    !.file_contents =
                        [k \in DOMAIN @ \cup {relative_path} |->
                            IF k = relative_path
                            THEN format_file_content(file_path, read.content)
                            ELSE @[k]],
                    !.file_count = @ + 1] IN
    [after EXCEPT !.passes = Append(@, [file_path |-> file_path,
                                       file_count |-> after.file_count,
                                       keys |-> DOMAIN after.file_contents])]

\* get_file_contents, lines 264-288: the loop over the files list_files yields
RECURSIVE ForEachFile(_, _, _, _, _)
ForEachFile(file_paths, acc, directory, max_files, stats) ==
    IF file_paths = <<>> THEN acc
    ELSE IF acc.file_count >= max_files THEN NoMoreFiles(acc, max_files)
    ELSE ForEachFile(Tail(file_paths), ProcessFile(acc, Head(file_paths), directory, stats),
                     directory, max_files, stats)

WithVscode_InPlace(exclude_dirs, vscode_config) ==
    IF vscode_config /\ exclude_dirs.given /\ <<".vscode">> \in exclude_dirs.value
    THEN [passed |-> Given(exclude_dirs.value \ {<<".vscode">>}),
          callers |-> Given(exclude_dirs.value \ {<<".vscode">>})]
    ELSE [passed |-> exclude_dirs, callers |-> exclude_dirs]

\* get_file_contents, lines 259-262: the set handed on to list_files, and the
\* caller's set after these lines
WithVscode(exclude_dirs, vscode_config) ==
    IF vscode_config /\ exclude_dirs.given /\ <<".vscode">> \in exclude_dirs.value
    THEN [passed |-> Given(exclude_dirs.value \ {<<".vscode">>}),
          callers |-> exclude_dirs]
    ELSE [passed |-> exclude_dirs, callers |-> exclude_dirs]

\* get_file_contents, lines 256-257: before the loop
NoFileContents ==
    [file_contents |-> <<>>, file_count |-> 0, passes |-> <<>>, warnings |-> <<>>,
     skipped |-> <<>>, errors |-> <<>>]

\* get_file_contents: the dict it returns, what the loop did, the caller's
\* exclude_dirs and the module's EXCLUDED_DIRS after the call
get_file_contents(directory, entries, exclude_dirs, exclude_patterns, max_files, vscode_config, stats) ==
    LET dirs == WithVscode(exclude_dirs, vscode_config)
        listed == list_files(directory, entries, dirs.passed, exclude_patterns, 10)
        done == ForEachFile(listed.yielded, NoFileContents, directory, max_files, stats) IN
    [returned |-> done.file_contents, file_count |-> done.file_count,
     passes |-> done.passes, warnings |-> done.warnings, skipped |-> done.skipped,
     errors |-> done.errors, listed |-> listed.yielded,
     exclude_dirs |-> dirs.callers, EXCLUDED_DIRS |-> EXCLUDED_DIRS]

\* What the file system does with each file of the tree
Conditions(entries) ==
    [{item.path : item \in {i \in entries : i.kind = "file"}} -> {"ok", "large", "raises"}]

\* A call of get_file_contents on the analysed directory
GetFileContents(exclude_dirs, exclude_patterns, max_files, vscode_config) ==
    /\ contents' = [called |-> TRUE, exclude_dirs |-> exclude_dirs,
                    exclude_patterns |-> exclude_patterns, max_files |-> max_files,
                    vscode_config |-> vscode_config,
                    result |-> get_file_contents(root, tree, exclude_dirs, exclude_patterns,
                                                 max_files, vscode_config, condition)]
    /\ UNCHANGED <<root, tree, condition, listing, reading>>
    /\ UNCHANGED factoryVars
    /\ UNCHANGED agentVars
    /\ UNCHANGED runVars

\* The analysed directories: one with plain parts, and one below a
\* directory that is named like an excluded one
Roots ==
    {<< <<"/">>, <<"home">>, <<"proj">> >>,
     << <<"/">>, <<"home">>, <<"build">>, <<"proj">> >>}

\* The files that may lie directly in the analysed directory
TopFiles ==
    {File(<< <<"main", ".py">> >>), File(<< <<"README", ".md">> >>),
     File(<< <<"debug", ".log">> >>), File(<< <<"env">> >>)}

\* The subtrees that may lie in the analysed directory: a source directory
\* with a nested package, an excluded directory, a directory whose name
\* ends like a log file, and a directory that cannot be listed
SrcTrees ==
    {{}} \cup
    {{Dir(<< <<"src">> >>)} \cup files \cup core :
        files \in SUBSET {File(<< <<"src">>, <<"util", ".py">> >>)},
        core \in {{},
                  {Dir(<< <<"src">>, <<"core">> >>)},
                  {Dir(<< <<"src">>, <<"core">> >>),
                   File(<< <<"src">>, <<"core">>, <<"deep", ".py">> >>)}}}

BuildTrees ==
    {{}, {Dir(<< <<"build">> >>), File(<< <<"build">>, <<"out", ".py">> >>)}}

LogDirTrees ==
    {{}, {Dir(<< <<"v1", ".log">> >>), File(<< <<"v1", ".log">>, <<"notes", ".py">> >>)}}

SecretTrees ==
    {{}, {DeniedDir(<< <<"secret">> >>), File(<< <<"secret">>, <<"key", ".py">> >>)}}

Trees ==
    {top \cup src \cup build \cup logdir \cup secret :
        top \in SUBSET TopFiles, src \in SrcTrees, build \in BuildTrees,
        logdir \in LogDirTrees, secret \in SecretTrees}

\* The trees get_file_contents is called on: files of the analysed
\* directory, a source directory and a .vscode directory
ContentTrees ==
    {top \cup src \cup vscode :
        top \in SUBSET {File(<< <<"main", ".py">> >>), File(<< <<"app", ".js">> >>)},
        src \in {{}, {Dir(<< <<"src">> >>), File(<< <<"src">>, <<"util", ".py">> >>)}},
        vscode \in {{}, {Dir(<< <<".vscode">> >>),
                         File(<< <<".vscode">>, <<"settings", ".json">> >>)}}}

\* The arguments of the calls of get_file_contents
ContentExcludeDirsArgs ==
    {Omitted, Given({<<".vscode">>}), Given({<<".vscode">>, <<"src">>})}

MaxFilesArgs == {0, 1, 2, 100}

\* The arguments of the calls of list_files
ExcludeDirsArgs == {Omitted, Given({<<"src">>})}

ExcludePatternsArgs == {Omitted, Given({<<"*", ".py">>})}

MaxDepthArgs == {0, 1, 10}

(***************************************************************************)
(* Specifications                                                          *)
(***************************************************************************)
NoOperation ==
    [op |-> None, data |-> None, structure |-> NoStructure, prompt |-> None,
     provider |-> ProviderReturns(<<>>), outcome |-> Returned(None, <<>>, <<>>),
     done |-> TRUE]

NoAgent ==
    /\ architect = NoArchitect
    /\ constructed = [kind |-> None, error |-> None, clients |-> 0,
                      environ |-> [AZURE_ENDPOINT |-> None, AZURE_API_KEY |-> None,
                                   AZURE_DEPLOYMENT |-> None]]
    /\ requests = <<>>
    /\ log = <<>>
    /\ opResult = NoOperation

IdleAgents ==
    /\ env = [AZURE_ENDPOINT |-> None, AZURE_API_KEY |-> None, AZURE_DEPLOYMENT |-> None]
    /\ NoAgent

IdleRuns ==
    /\ run = [r \in Runs |-> NewRun(NoneStructure, [k \in DOMAIN Phases |-> <<"a">>])]
    /\ calling = 0

IdleFactory ==
    /\ resolved = [phase |-> None, kwargs |-> <<>>, config |-> NoneConfig, result |-> NoCall]
    /\ tests = <<>>
    /\ testIdx = 0
    /\ testPc = "idle"
    /\ original_config = NoneConfig
    /\ testOutcome = None

NoListing ==
    [called |-> FALSE, exclude_dirs |-> Omitted, exclude_patterns |-> Omitted,
     max_depth |-> 0, yielded |-> <<>>, warnings |-> <<>>]

NoReading ==
    [called |-> FALSE, exists |-> FALSE, data |-> <<>>, content |-> <<>>, encoding |-> None,
     tried |-> <<>>, error |-> None]

NoContents ==
    [called |-> FALSE, exclude_dirs |-> Omitted, exclude_patterns |-> Omitted,
     max_files |-> 0, vscode_config |-> FALSE,
     result |-> [returned |-> <<>>, file_count |-> 0, passes |-> <<>>, warnings |-> <<>>,
                 skipped |-> <<>>, errors |-> <<>>, listed |-> <<>>,
                 exclude_dirs |-> Omitted, EXCLUDED_DIRS |-> EXCLUDED_DIRS]]

IdleTools ==
    /\ root = << <<"/">>, <<"home">>, <<"proj">> >>
    /\ tree = {}
    /\ condition = <<>>
    /\ listing = NoListing
    /\ reading = NoReading
    /\ contents = NoContents

\* The process as shipped: the registry of config/agents.py
Init ==
    /\ registry = MODEL_CONFIG
    /\ IdleFactory
    /\ IdleTools
    /\ IdleAgents
    /\ IdleRuns

\* The configurations a user binds to a phase: one of each provider and
\* reasoning family of the predefined ones, and the Azure OpenAI one.
ConfigChoices ==
    {CLAUDE_BASIC, O1_HIGH, GPT4_1_PRECISE, DEEPSEEK_REASONER, GEMINI_BASIC, AZURE_GPT4O}

\* The phases a user rebinds: one that only the factory reads, and the one
\* the test harness overrides.
EditedPhases == {"phase1", "final"}

\* The registries a user obtains by editing config/agents.py: the shipped one
\* with one phase rebound or removed.
EditedRegistries ==
    {MODEL_CONFIG}
        \cup {DictSet(MODEL_CONFIG, p, c) : p \in EditedPhases, c \in ConfigChoices}
        \cup {DictDel(MODEL_CONFIG, p) : p \in EditedPhases}

InitConfig ==
    /\ registry \in EditedRegistries
    /\ IdleFactory
    /\ IdleTools
    /\ IdleAgents
    /\ IdleRuns

Next ==
    \/ \E phase \in PhaseArgs, kwargs \in KwargsSet : Resolve(phase, kwargs)
    \/ RunAllTests
    \/ TestModelConfigEnter
    \/ \E outcome \in TestOutcomes : TestModelConfigTry(outcome)
    \/ TestModelConfigFinally

Spec == Init /\ [][Next]_vars

SpecConfig == InitConfig /\ [][Next]_vars

\* The Azure OpenAI agent and its callers, in every environment
InitAgent ==
    /\ registry = MODEL_CONFIG
    /\ IdleFactory
    /\ IdleTools
    /\ env \in Environments
    /\ NoAgent
    /\ IdleRuns

NextAgent ==
    \/ \E model_config \in ModelConfigDicts, system_prompt \in SystemPrompts :
          Construct(model_config, system_prompt)
    \/ \E c \in Calls : Call(c.op, c.data, c.structure, c.prompt)
    \/ \E provider \in ProviderOutcomes : Analyze(provider)
    \/ \E provider \in ProviderOutcomes : AnalyzeProjectPhase2(provider)
    \/ \E provider \in ProviderOutcomes : AnalyzeProjectPhase4(provider)
    \/ \E provider \in ProviderOutcomes : FinalAnalysis(provider)
    \/ \E provider \in ProviderOutcomes : AnalyzeFinal(provider)
    \/ \E provider \in ProviderOutcomes : CreateAnalysisPlan(provider)
    \/ \E provider \in ProviderOutcomes : SynthesizeFindings(provider)
    \/ \E provider \in ProviderOutcomes : ConsolidateResults(provider)

SpecAgent == InitAgent /\ [][NextAgent]_vars

\* Two runs over the same project whose mocked responses differ in one
\* phase, with the shipped registry or with one that lacks a phase.
InitRun ==
    /\ registry \in {MODEL_CONFIG, DictSet(MODEL_CONFIG, "phase3", AZURE_GPT4O)}
    /\ IdleFactory
    /\ IdleTools
    /\ IdleAgents
    /\ \E structure \in OptionalStructures, mock \in MockTables, j \in DOMAIN Phases :
          run = [r \in Runs |->
                   NewRun(structure,
                          IF r = 1 THEN mock
                          ELSE [mock EXCEPT ![j] = CHOOSE t \in RunTexts : t # mock[j]])]
    /\ calling = 0

NextRun ==
    \/ \E r \in Runs : StartRun(r)
    \/ \E r \in Runs : \E provider \in MockOutcomes(run[r]) : RunPhase(r, provider)

SpecRun == InitRun /\ [][NextRun]_vars

\* Two independent runs scheduled on one event loop
InitLoop ==
    /\ registry = MODEL_CONFIG
    /\ IdleFactory
    /\ IdleTools
    /\ IdleAgents
    /\ \E structure \in OptionalStructures :
          run = [r \in Runs |-> NewRun(structure, [k \in DOMAIN Phases |-> <<"a">>])]
    /\ calling = 0

NextLoop ==
    \/ \E r \in Runs : StartOnLoop(r)
    \/ \E r \in Runs : EnterCall(r)
    \/ \E r \in Runs : \E provider \in MockOutcomes(run[r]) : ReturnCall(r, provider)

SpecLoop == InitLoop /\ [][NextLoop]_vars

\* list_files on every tree, below every analysed directory
InitFiles ==
    /\ registry = MODEL_CONFIG
    /\ IdleFactory
    /\ IdleAgents
    /\ IdleRuns
    /\ root \in Roots
    /\ tree \in Trees
    /\ condition = <<>>
    /\ listing = NoListing
    /\ reading = NoReading
    /\ contents = NoContents

NextFiles ==
    \E exclude_dirs \in ExcludeDirsArgs, exclude_patterns \in ExcludePatternsArgs,
       max_depth \in MaxDepthArgs :
        ListFiles(exclude_dirs, exclude_patterns, max_depth)

SpecFiles == InitFiles /\ [][NextFiles]_vars

\* get_file_contents on the content trees
InitContents ==
    /\ registry = MODEL_CONFIG
    /\ IdleFactory
    /\ IdleAgents
    /\ IdleRuns
    /\ root \in Roots
    /\ tree \in ContentTrees
    /\ condition \in Conditions(tree)
    /\ listing = NoListing
    /\ reading = NoReading
    /\ contents = NoContents

NextContents ==
    \E exclude_dirs \in ContentExcludeDirsArgs, max_files \in MaxFilesArgs,
       vscode_config \in BOOLEAN :
        GetFileContents(exclude_dirs, Omitted, max_files, vscode_config)

SpecContents == InitContents /\ [][NextContents]_vars

\* read_file_with_fallback on every file content
InitRead ==
    /\ registry = MODEL_CONFIG
    /\ IdleFactory
    /\ IdleAgents
    /\ IdleRuns
    /\ IdleTools

NextRead == \E file \in FilesToRead : ReadFile(file)

SpecRead == InitRead /\ [][NextRead]_vars

(***************************************************************************)
(* Properties of the factory and the registry                              *)
(***************************************************************************)
\* The providers get_architect_for_phase has a branch for
DispatchedProviders == {"ANTHROPIC", "OPENAI", "DEEPSEEK", "GEMINI"}

\* C1: a call of get_architect_for_phase for a phase that has no entry in
\* the registry (no key, or an entry holding None) fails with the ValueError
\* "No model configuration found", whatever overrides are passed; it returns
\* no agent and invokes no agent constructor.
C1_MissingPhaseFails ==
    (resolved.phase # None /\ resolved.config = NoneConfig)
        => /\ resolved.result.kind = "raise"
           /\ resolved.result.error = "ValueError"
           /\ resolved.result.message = "No model configuration found for phase"
           /\ resolved.result.variant = None

\* A phase of the closed set whose entry was removed has been resolved
C1_Witness ==
    /\ resolved.phase \in PhaseIds
    /\ resolved.phase \notin DOMAIN registry
    /\ resolved.result.error = "ValueError"

\* C2: when the entry of the phase names a provider without a dispatch
\* branch, the call fails with the ValueError "Unknown model provider" and
\* no agent constructor is invoked.
C2_UnknownProviderFails ==
    (/\ resolved.phase # None
     /\ resolved.config # NoneConfig
     /\ resolved.config.provider \notin DispatchedProviders)
        => /\ resolved.result.kind = "raise"
           /\ resolved.result.error = "ValueError"
           /\ resolved.result.message = "Unknown model provider"
           /\ resolved.result.variant = None

C2_Witness ==
    /\ resolved.phase \in PhaseIds
    /\ resolved.config.provider = "AZURE_OPENAI"
    /\ resolved.result.message = "Unknown model provider"

\* C3: in every state of the shipped process, the test harness included,
\* each of the six phases has a registry entry whose provider is dispatched
\* on, and no resolution of one of the six phases ends in a ValueError.
C3_EveryPhaseResolves ==
    /\ \A p \in PhaseIds :
          /\ p \in DOMAIN registry
          /\ registry[p] # NoneConfig
          /\ registry[p].provider \in DispatchedProviders
          /\ get_architect_for_phase(registry, p, <<>>).kind = "agent"
    /\ resolved.phase \in PhaseIds => resolved.result.error # "ValueError"

\* "final" is resolved while test_model_config has it overridden
C3_Witness ==
    /\ testPc = "try"
    /\ resolved.phase = "final"
    /\ resolved.config = O1_HIGH
    /\ resolved.result.variant = "OpenAIArchitect"

\* C4: a phase bound to a provider that has an agent class resolves, without
\* overrides, to an agent of that class.
C4_EveryAgentClassResolves ==
    (/\ resolved.phase # None
     /\ resolved.config # NoneConfig
     /\ resolved.config.provider \in ProvidersWithAgent
     /\ DOMAIN resolved.kwargs = {})
        => /\ resolved.result.kind = "agent"
           /\ resolved.result.variant = ArchitectOf(resolved.config.provider)

\* C12: a call of get_architect_for_phase for a phase bound to a dispatched
\* provider invokes the agent constructor, and every override of the caller
\* reaches the constructor with the caller's value, also when the registry
\* entry supplies the same parameter.
C12_OverridesTakePrecedence ==
    (/\ resolved.phase # None
     /\ resolved.config # NoneConfig
     /\ resolved.config.provider \in DispatchedProviders)
        => /\ resolved.result.kind = "agent"
           /\ \A n \in DOMAIN resolved.kwargs :
                 /\ n \in DOMAIN resolved.result.params
                 /\ resolved.result.params[n] = resolved.kwargs[n]

\* temperature is set exactly when the reasoning mode is TEMPERATURE
TemperatureIffMode(config) ==
    (config.temperature # None) <=> (config.reasoning = "TEMPERATURE")

\* C13: every predefined ModelConfig constant, every ModelConfig bound in
\* the registry and every ModelConfig a resolution reads from it has its
\* temperature set if and only if its reasoning mode is TEMPERATURE.
C13_TemperatureIffMode ==
    /\ \A config \in PredefinedConfigs : TemperatureIffMode(config)
    /\ \A p \in DOMAIN registry : TemperatureIffMode(registry[p])
    /\ resolved.phase # None => TemperatureIffMode(resolved.config)

\* The registry holds two temperature-driven configurations, one of them
\* bound by the test harness, and one of them was resolved
C13_Witness ==
    /\ registry["phase1"] = GPT4_1_PRECISE
    /\ registry["final"] = GPT4_1_DEFAULT
    /\ resolved.phase = "final"
    /\ resolved.config.temperature = "0.7"

\* C14: in every state the registry maps each phase to the ModelConfig it
\* held at process start, and every resolution of a phase reads that
\* ModelConfig, whatever the factory and the test harness have done before.
C14_RegistryNeverMutated ==
    /\ registry = MODEL_CONFIG
    /\ resolved.phase \in PhaseIds => resolved.config = MODEL_CONFIG[resolved.phase]

\* run_all_tests appends the configuration bound to "final" to its four
\* fixed ones, so the tests it drew tell whether the registry had an entry
\* for "final" when it started
FinalBoundAtStart == Len(tests) = 5

\* C21: whenever test_model_config has returned (the loop of run_all_tests
\* is about to start the next test, or has ended), the registry is the one
\* before the call: "final" is bound to the configuration it was bound to,
\* and is no key of the registry when it was none before, whatever the
\* try block ended with.
C21_RegistryRestored ==
    testPc \in {"loop", "done"}
        => IF FinalBoundAtStart
           THEN "final" \in DOMAIN registry /\ registry["final"] = tests[5]
           ELSE "final" \notin DOMAIN registry

(***************************************************************************)
(* Properties of the Azure OpenAI agent                                    *)
(***************************************************************************)
\* The user prompt of the request the last operation sent
SentPrompt == requests[1].messages[2].content

\* The last operation's response makes chunk[1].get raise
BadChunk(provider) ==
    \E i \in DOMAIN provider.chunks :
        provider.chunks[i].tuple /\ provider.chunks[i].second # "dict"

\* C8: final_analysis and analyze_final, given a project structure that is
\* None or empty, build the prompt from the sentinel structure and raise
\* nothing but what the provider call raises.
C8_EmptyStructureGetsSentinel ==
    (/\ opResult.done
     /\ opResult.op \in {"final_analysis", "analyze_final"}
     /\ (opResult.structure.kind = None \/ opResult.structure.items = <<>>))
        => /\ Len(requests) = 1
           /\ SentPrompt.structure = SENTINEL_STRUCTURE
           /\ (opResult.outcome.kind = "raise"
                  => opResult.provider.raises # None \/ BadChunk(opResult.provider))

\* C9: a constructor call made while AZURE_ENDPOINT or AZURE_API_KEY is
\* unset or empty raises ValueError and creates no client; every agent
\* object that exists holds both credentials, and so does every request.
Missing(value) == value \in {None, ""}

C9_MissingCredentialsRaise ==
    /\ (/\ constructed.kind # None
        /\ (Missing(constructed.environ.AZURE_ENDPOINT)
                \/ Missing(constructed.environ.AZURE_API_KEY)))
          => /\ constructed.kind = "raise"
             /\ constructed.error = "ValueError"
             /\ constructed.clients = 0
             /\ architect = NoArchitect
    /\ architect.client => ~Missing(architect.endpoint) /\ ~Missing(architect.api_key)
    /\ \A i \in DOMAIN requests :
          ~Missing(requests[i].endpoint) /\ ~Missing(requests[i].api_key)

\* The constructor was called with the endpoint set and the key empty
C9_Witness ==
    /\ constructed.kind = "raise"
    /\ constructed.environ.AZURE_ENDPOINT = "set"
    /\ constructed.environ.AZURE_API_KEY = ""

Carried(chunk) == IF chunk.tuple /\ chunk.has_content THEN chunk.content ELSE EmptyStr

\* The texts of the chunks of a response, one after the other
RECURSIVE InArrivalOrder(_)
InArrivalOrder(chunks) ==
    IF chunks = <<>> THEN EmptyStr
    ELSE Carried(Head(chunks)) \o InArrivalOrder(Tail(chunks))

\* What _call_azure_openai returned to the last operation: the seven
\* operations that wrap the response hand it on; final_analysis does not,
\* so there it is the response of the one call the operation made.
ResponseOf(o) ==
    IF o.op = "final_analysis"
    THEN call_azure_openai(architect, requests[1].messages, o.provider).value
    ELSE o.outcome.value.value

\* C11: every phase operation sends exactly one request to the provider,
\* whether the call succeeds or fails, and when it succeeds the response it
\* got from its provider call holds one string: the texts of the chunks,
\* concatenated in arrival order.
C11_OneRequestOneString ==
    (opResult.done /\ opResult.op # None)
        => /\ Len(requests) = 1
           /\ opResult.outcome.kind = "return"
                 => ResponseOf(opResult).streamed_content
                        = InArrivalOrder(opResult.provider.chunks)

\* consolidate_results got a response of two chunks, "a" then "b"
C11_Witness ==
    /\ opResult.done
    /\ opResult.op = "consolidate_results"
    /\ opResult.provider.chunks = <<Delta(<<"a">>), Delta(<<"b">>)>>
    /\ opResult.outcome.value.value.streamed_content = <<"a", "b">>
    /\ Len(requests) = 1

\* The keys of the mapping an operation returned
ArtifactFields(mapping) == {mapping.key}

ResultKey(op) ==
    CASE op = "synthesize_findings" -> "synthesis"
      [] op = "consolidate_results" -> "consolidated_report"
      [] op = "final_analysis" -> "final_analysis"
      [] OTHER -> "analysis"

\* The text held under the result key: final_analysis stores a str, the
\* other operations store the response dict, whose one entry is the text.
TextOf(mapping) ==
    IF mapping.key = "final_analysis" THEN mapping.value
    ELSE mapping.value.streamed_content

\* C16: an operation that returns hands back a mapping with the result key
\* of the operation, and the text under that key is the text the provider
\* returned for the call; for final_analysis too.
C16_ResultHoldsRawText ==
    (/\ opResult.done
     /\ opResult.op # None
     /\ opResult.outcome.kind = "return")
        => /\ opResult.outcome.value.key = ResultKey(opResult.op)
           /\ TextOf(opResult.outcome.value) = InArrivalOrder(opResult.provider.chunks)

\* The agent is as a constructor call in this environment left it
AsConstructed ==
    architect.client
        => \E model_config \in ModelConfigDicts, system_prompt \in SystemPrompts :
              architect = AzureOpenAIArchitect(env, model_config, system_prompt).self

\* A step that runs a phase operation leaves the agent, the environment and
\* the arguments of the call as they were
OperationKeepsFrame ==
    (~opResult.done /\ opResult'.done)
        => /\ architect' = architect
           /\ env' = env
           /\ opResult'.op = opResult.op
           /\ opResult'.data = opResult.data
           /\ opResult'.structure = opResult.structure
           /\ opResult'.prompt = opResult.prompt

\* analyze_project_phase_2 on a dict: the prompt is built from a list and
\* the caller's dict is still a dict
DictConvertedToNewList ==
    (/\ opResult.done
     /\ opResult.op = "analyze_project_phase_2"
     /\ \E ps \in ProjectStructures : ps.kind = "dict" /\ StructureAsList(ps) = SentPrompt.structure)
        => /\ opResult.structure.kind = "dict"
           /\ SentPrompt.structure.kind = "list"

\* C17: a phase operation changes nothing but its return value: every
\* field of the agent keeps the value the constructor gave it, and the
\* phase results, the prompt and the project structure passed in are left
\* as they were (a dict-shaped structure is converted into a new list).
C17_OperationsChangeNothing ==
    /\ [](AsConstructed /\ DictConvertedToNewList)
    /\ [][OperationKeepsFrame]_vars

\* analyze_project_phase_2 has returned for a dict-shaped structure
C17_Witness ==
    /\ opResult.done
    /\ opResult.op = "analyze_project_phase_2"
    /\ opResult.structure.kind = "dict"
    /\ opResult.outcome.kind = "return"
    /\ SentPrompt.structure.kind = "list"

(***************************************************************************)
(* Properties of the orchestrator runs                                     *)
(***************************************************************************)
\* The phases of a run are started and merged in the fixed order, each one
\* after all its predecessors were merged.
InPhaseOrder(rec) ==
    /\ \A i \in DOMAIN rec.report : rec.report[i].phase = Phases[i]
    /\ \A i \in DOMAIN rec.inputs :
          rec.inputs[i].phase = Phases[i] /\ rec.inputs[i].merged = i - 1
    /\ Len(rec.inputs) <= Len(rec.report) + 1
    /\ PhaseIndex(rec.state) > 0 => Len(rec.report) = PhaseIndex(rec.state) - 1
    /\ rec.state = "DONE" => Len(rec.report) = Len(Phases)

\* A run that is in ERROR stays as it is
ErrorAbsorbing == \A r \in Runs : run[r].state = "ERROR" => run'[r] = run[r]

\* C5: a run goes through phase1, phase2, phase3, phase4, phase5, final in
\* this order; a phase is started only when the results of all earlier
\* phases are merged; the report of a completed run holds one entry per
\* phase, in phase order; a run in ERROR starts no phase and merges nothing.
C5_PhaseOrder ==
    /\ [](\A r \in Runs : InPhaseOrder(run[r]))
    /\ [][ErrorAbsorbing]_vars

\* One run has completed and the other has failed in phase3
C5_Witness ==
    /\ run[1].state = "DONE"
    /\ Len(run[1].report) = 6
    /\ run[2].state = "ERROR"
    /\ Len(run[2].inputs) = 3

Unfinished(r) == run[r].state \notin {"DONE", "ERROR"}

\* C18: while the task of one run is inside the provider call of a phase,
\* every other run that is not finished can take a step on the same event
\* loop: start, or enter the provider call of its own phase.
C18_CallIsSuspensionPoint ==
    \A r \in Runs :
        calling = r
            => \A other \in Runs \ {r} :
                  Unfinished(other) => ENABLED (StartOnLoop(other) \/ EnterCall(other))

\* C7: for two runs over the same project whose mocked responses agree on
\* the phases before k, the inputs recorded for phase k are the same,
\* whatever the responses of phase k and of the later phases are.
C7_NoFutureData ==
    \A k \in DOMAIN Phases :
        (/\ Len(run[1].inputs) >= k
         /\ Len(run[2].inputs) >= k
         /\ \A j \in 1..(k - 1) : run[1].mock[j] = run[2].mock[j])
            => run[1].inputs[k] = run[2].inputs[k]

\* The responses of phase4 differ: the inputs of phase4 are the same and
\* the inputs of phase5 are not.
C7_Witness ==
    /\ run[1].mock[4] # run[2].mock[4]
    /\ Len(run[1].inputs) >= 5
    /\ Len(run[2].inputs) >= 5
    /\ run[1].inputs[4] = run[2].inputs[4]
    /\ run[1].inputs[5] # run[2].inputs[5]

(***************************************************************************)
(* Properties of the file retriever                                        *)
(***************************************************************************)
\* The exclusion policy: a part of the path is an excluded directory name,
\* or the name of the file or directory matches an excluded pattern
PolicyExcludes(path, dirs, patterns) ==
    \/ \E i \in DOMAIN path : path[i] \in dirs
    \/ \E pattern \in patterns : fnmatch(path[Len(path)], pattern)

\* How often a generator yielded a path
Count(yielded, path) == Cardinality({i \in DOMAIN yielded : yielded[i] = path})

\* The directories of the tree an entry lies under
Ancestors(entry) ==
    {d \in tree : /\ d.kind = "dir"
                  /\ Len(d.path) < Len(entry.path)
                  /\ SubSeq(entry.path, 1, Len(d.path)) = d.path}

\* Every path yielded is a file of the tree that the policy in force for
\* the call does not exclude
YieldsNoExcludedPath ==
    \A i \in DOMAIN listing.yielded :
        /\ \E f \in tree : f.kind = "file" /\ listing.yielded[i] = root \o f.path
        /\ ~PolicyExcludes(listing.yielded[i], ExcludeDirs(listing.exclude_dirs),
                           ExcludePatterns(listing.exclude_patterns))

\* The files the call has to yield: within max_depth, not excluded, under
\* no excluded directory
Relevant(f) ==
    /\ f.kind = "file"
    /\ Len(f.path) - 1 <= listing.max_depth
    /\ ~PolicyExcludes(root \o f.path, ExcludeDirs(listing.exclude_dirs),
                       ExcludePatterns(listing.exclude_patterns))
    /\ \A d \in Ancestors(f) :
          ~PolicyExcludes(root \o d.path, ExcludeDirs(listing.exclude_dirs),
                          ExcludePatterns(listing.exclude_patterns))

FallbackOrder == <<"utf-8", "latin-1", "cp1252", "iso-8859-1">>

\* The positions in the fallback list of the encodings that decode the data
Decodable(data) == {i \in DOMAIN FallbackOrder : Decode(data, FallbackOrder[i]).ok}

\* C20: read_file_with_fallback tries utf-8, latin-1, cp1252, iso-8859-1 in
\* this order and returns the content as decoded by the first of them that
\* decodes the file, with its name; when none does it returns the bytes
\* decoded as utf-8 with replacement characters and the label
\* 'utf-8 (with replacement)'; it raises no decoding error.
C20_FirstEncodingThatDecodes ==
    (reading.called /\ reading.exists)
        => /\ reading.error = None
           /\ IF Decodable(reading.data) # {}
              THEN LET first == CHOOSE i \in Decodable(reading.data) :
                                    \A j \in Decodable(reading.data) : i <= j IN
                   /\ reading.encoding = FallbackOrder[first]
                   /\ reading.content = Decode(reading.data, FallbackOrder[first]).text
                   /\ reading.tried = SubSeq(FallbackOrder, 1, first)
              ELSE /\ reading.encoding = "utf-8 (with replacement)"
                   /\ reading.content = DecodeUtf8(reading.data, "replace").text
                   /\ reading.tried = FallbackOrder

\* A file that is no UTF-8 was read as latin-1, after utf-8 had failed
C20_Witness ==
    /\ reading.called
    /\ reading.data = <<"61", "FF">>
    /\ reading.tried = <<"utf-8", "latin-1">>
    /\ reading.encoding = "latin-1"
    /\ reading.content = <<"a", "U+00FF">>

\* The path of a listed file below the analysed directory
RelativeTo(file_path) == SubSeq(file_path, Len(root) + 1, Len(file_path))

\* The files list_files yielded for the last call of get_file_contents that
\* are small enough and whose processing does not raise, in the order yielded
Processable ==
    SelectSeq(contents.result.listed,
              LAMBDA file_path : condition[RelativeTo(file_path)] = "ok")

\* The first n elements of a sequence, or all when it has fewer
FirstN(seq, n) == SubSeq(seq, 1, IF n < Len(seq) THEN n ELSE Len(seq))

\* C22: get_file_contents returns at most max_files entries; after every
\* pass of the loop the counter equals the number of entries added so far;
\* the entries returned are the first max_files listed files that are
\* neither too large nor failing, so a skipped or failing file is no entry,
\* uses none of the budget and does not stop the files after it.
C22_CountsOnlyAddedFiles ==
    contents.called
        => LET result == contents.result IN
           /\ Cardinality(DOMAIN result.returned) <= contents.max_files
           /\ \A i \in DOMAIN result.passes :
                  result.passes[i].file_count = Cardinality(result.passes[i].keys)
           /\ result.file_count = Cardinality(DOMAIN result.returned)
           /\ DOMAIN result.returned
                  = {RelativeTo(Processable[i]) :
                        i \in DOMAIN FirstN(Processable, contents.max_files)}
           /\ \A i \in DOMAIN result.skipped :
                  RelativeTo(result.skipped[i]) \notin DOMAIN result.returned
           /\ \A i \in DOMAIN result.errors :
                  RelativeTo(result.errors[i]) \notin DOMAIN result.returned

\* With a budget of one file, a file was skipped as too large, another
\* failed, and a file listed after both was added
C22_Witness ==
    /\ contents.called
    /\ contents.max_files = 1
    /\ Len(contents.result.skipped) = 1
    /\ Len(contents.result.errors) = 1
    /\ Len(contents.result.passes) = 3
    /\ contents.result.passes[3].file_count = 1
    /\ Cardinality(DOMAIN contents.result.returned) = 1

\* The call was made with vscode_config true and a set of the caller's that
\* holds '.vscode'
VscodeRequested ==
    /\ contents.called
    /\ contents.vscode_config
    /\ contents.exclude_dirs.given
    /\ <<".vscode">> \in contents.exclude_dirs.value

\* The files of the tree that lie under .vscode
VscodeFiles ==
    {item \in tree : item.kind = "file" /\ Len(item.path) > 1 /\ item.path[1] = <<".vscode">>}

\* C23: after a call with vscode_config true and a caller's exclude_dirs
\* that holds '.vscode', every file under .vscode that is small enough and
\* can be read is an entry of the result unless the budget of max_files
\* ran out, and the caller's set is the one passed in; after every call
\* the module's EXCLUDED_DIRS is as defined.
C23_VscodeIncludedOnACopy ==
    /\ VscodeRequested
          => /\ \A item \in VscodeFiles :
                    condition[item.path] = "ok"
                        => \/ item.path \in DOMAIN contents.result.returned
                           \/ contents.result.file_count = contents.max_files
             /\ contents.result.exclude_dirs = contents.exclude_dirs
             /\ <<".vscode">> \in contents.result.exclude_dirs.value
    /\ contents.called => contents.result.EXCLUDED_DIRS = EXCLUDED_DIRS

\* The caller excluded .vscode and src, and the result holds the settings
\* file of .vscode but not the file of src
C23_Witness ==
    /\ VscodeRequested
    /\ contents.exclude_dirs.value = {<<".vscode">>, <<"src">>}
    /\ << <<".vscode">>, <<"settings", ".json">> >> \in DOMAIN contents.result.returned
    /\ File(<< <<"src">>, <<"util", ".py">> >>) \in tree
    /\ << <<"src">>, <<"util", ".py">> >> \notin DOMAIN contents.result.returned
    /\ contents.result.exclude_dirs = Given({<<".vscode">>, <<"src">>})

\* The depth of a directory: the analysed directory is at depth 0
DepthOfDir(path) == Len(path) - Len(root)

\* The elements of a sequence
Range(seq) == {seq[i] : i \in DOMAIN seq}

\* The tree without the directories whose listing is denied and without
\* what lies under them
WithoutDenied ==
    {item \in tree : ~item.denied /\ \A d \in Ancestors(item) : ~d.denied}

\* The denied directories the descent arrives at: within max_depth, not
\* excluded, under no excluded and no denied directory
DeniedReached ==
    {d \in tree :
        /\ d.denied
        /\ Len(d.path) <= listing.max_depth
        /\ ~PolicyExcludes(root \o d.path, ExcludeDirs(listing.exclude_dirs),
                           ExcludePatterns(listing.exclude_patterns))
        /\ \A a \in Ancestors(d) :
              /\ ~a.denied
              /\ ~PolicyExcludes(root \o a.path, ExcludeDirs(listing.exclude_dirs),
                                 ExcludePatterns(listing.exclude_patterns))}

\* C24: list_files yields a file only if the directory that holds it is at
\* depth <= max_depth (the analysed directory being at depth 0); it lists no
\* directory deeper than max_depth, so it warns about no denied directory
\* deeper than that; a denied directory it arrives at is skipped with one
\* warning, and the files yielded are those yielded for the same tree
\* without the denied directories: the siblings and the rest are listed.
C24_DepthBoundedAndDeniedSkipped ==
    listing.called
        => /\ \A i \in DOMAIN listing.yielded :
                  DepthOfDir(listing.yielded[i]) - 1 <= listing.max_depth
           /\ \A i \in DOMAIN listing.warnings :
                  DepthOfDir(listing.warnings[i]) <= listing.max_depth
           /\ \A d \in tree :
                  Count(listing.warnings, root \o d.path)
                      = IF d \in DeniedReached THEN 1 ELSE 0
           /\ Range(listing.yielded)
                  = Range(list_files(root, WithoutDenied, listing.exclude_dirs,
                                     listing.exclude_patterns, listing.max_depth).yielded)

\* With max_depth 1 the file in src was yielded and the file in src/core was
\* not, and the denied directory was skipped with a warning while the file
\* next to it was yielded
C24_Witness ==
    /\ listing.called
    /\ listing.max_depth = 1
    /\ File(<< <<"src">>, <<"core">>, <<"deep", ".py">> >>) \in tree
    /\ DeniedDir(<< <<"secret">> >>) \in tree
    /\ Count(listing.yielded, root \o << <<"src">>, <<"util", ".py">> >>) = 1
    /\ Count(listing.yielded, root \o << <<"src">>, <<"core">>, <<"deep", ".py">> >>) = 0
    /\ Count(listing.yielded, root \o << <<"main", ".py">> >>) = 1
    /\ listing.warnings = <<root \o << <<"secret">> >> >>

\* An analysed directory no part of whose path is named like an excluded
\* directory
PlainRoot == << <<"/">>, <<"home">>, <<"proj">> >>

\* The paths below the directory "base" of the files yielded
Below(base, yielded) ==
    {SubSeq(yielded[i], Len(base) + 1, Len(yielded[i])) : i \in DOMAIN yielded}

\* C25: the files list_files yields, taken as paths below the analysed
\* directory, are those it yields for the same tree and the same arguments
\* under a directory whose own path has no part named like an excluded
\* directory.
C25_RootPathIrrelevant ==
    listing.called
        => Below(root, listing.yielded)
              = Below(PlainRoot, list_files(PlainRoot, tree, listing.exclude_dirs,
                                            listing.exclude_patterns,
                                            listing.max_depth).yielded)

\* The labels read_file_with_fallback has a return statement for
EncodingLabels == {"utf-8", "latin-1", "cp1252", "iso-8859-1", "utf-8 (with replacement)"}

\* The labels read_file_with_fallback returns for the files read
LabelsReturned ==
    {read_file_with_fallback(file).encoding : file \in {f \in FilesToRead : f.exists}}

\* C26: for each encoding of the fallback list and for the replacement
\* branch there is a file content for which read_file_with_fallback returns
\* that label.
C26_EveryLabelReturned ==
    reading.called => EncodingLabels \subseteq LabelsReturned

====
